---- MODULE Spec2Model ----
(***************************************************************************)
(* Encoder cache manager of vllm/v1/core: the content-addressed,           *)
(* reference-counted manager (class EncoderCacheManager, second definition *)
(* in encoder_cache_manager_backup.py).  The OrderedDict `cache` is a      *)
(* sequence of items in dictionary order; every method is an operator on   *)
(* the record of the object's fields, and one action per method applies it.*)
(***************************************************************************)
EXTENDS Integers, Sequences, FiniteSets, TLC

\* ------------------------------------------------------------------ bounds
CacheSize == 4        \* cache_size handed to the constructor
MaxInUse == 2         \* allocate on a cached key is followed up to this in_use
MaxDeficit == 1       \* how far below zero the model follows in_use

\* ------------------------------------------------- the Request collaborator
RequestIds == {"R1", "R2"}

\* request.mm_hash : input_id -> content key
Request ==
  [request_id \in RequestIds |->
     IF request_id = "R1"
       THEN [mm_hash |-> (0 :> "K1" @@ 1 :> "K1" @@ 2 :> "K2")]
       ELSE [mm_hash |-> (0 :> "K1" @@ 1 :> "K3")]]

\* encoder output token count of each content
NumEncoderTokens == ("K1" :> 2 @@ "K2" :> 1 @@ "K3" :> 3)

get_num_encoder_tokens(request, input_id) ==
  NumEncoderTokens[Request[request].mm_hash[input_id]]

InputIds(request) == DOMAIN Request[request].mm_hash

Pairs == {p \in RequestIds \X {0, 1, 2} : p[2] \in InputIds(p[1])}

\* ------------------------------------------------------------------- state
VARIABLES
  cache,                 \* OrderedDict mm_hash -> CacheEntry, in dict order
  num_used_tokens,       \* self.num_used_tokens
  request_mm_hashes,     \* dict request_id -> set of mm_hash
  mm_hash_to_input_ids,  \* dict mm_hash -> set of input_id
  usage,                 \* history: pairs allocated and not freed since
  idled,                 \* history: keys whose in_use a free brought to 0,
                         \*          oldest first, while they stay at 0
  last                   \* history: the last call, its result and evictions

vars == <<cache, num_used_tokens, request_mm_hashes, mm_hash_to_input_ids,
          usage, idled, last>>

\* the object's fields as one record
Self ==
  [cache |-> cache, num_used_tokens |-> num_used_tokens,
   request_mm_hashes |-> request_mm_hashes,
   mm_hash_to_input_ids |-> mm_hash_to_input_ids]

\* ----------------------------------------------------------------- helpers
CacheEntry(num_tokens) == [num_tokens |-> num_tokens, in_use |-> 0]

\* an item of the OrderedDict
Item(mm_hash, entry) ==
  [mm_hash |-> mm_hash, num_tokens |-> entry.num_tokens, in_use |-> entry.in_use]

Keys(c) == {c[n].mm_hash : n \in 1..Len(c)}

Entry(c, mm_hash) == c[CHOOSE n \in 1..Len(c) : c[n].mm_hash = mm_hash]

RECURSIVE SumTokens(_)
SumTokens(items) ==
  IF items = <<>> THEN 0
  ELSE Head(items).num_tokens + SumTokens(Tail(items))

\* OrderedDict.move_to_end(key, last)
move_to_end(c, mm_hash, to_last) ==
  LET e == Entry(c, mm_hash)
      rest == SelectSeq(c, LAMBDA x : x.mm_hash # mm_hash)
  IN IF to_last THEN Append(rest, e) ELSE <<e>> \o rest

\* dict.setdefault(key, set()).add(value)
setdefault_add(d, key, value) ==
  [k \in DOMAIN d \cup {key} |->
     IF k = key
       THEN (IF key \in DOMAIN d THEN d[key] ELSE {}) \cup {value}
       ELSE d[k]]

\* set.discard(value) on d[key], then del d[key] when the set is empty;
\* nothing happens when d.get(key) is None or empty
discard_del(d, key, value) ==
  IF key \in DOMAIN d /\ d[key] # {}
    THEN IF d[key] \ {value} = {}
           THEN [k \in DOMAIN d \ {key} |-> d[k]]
           ELSE [d EXCEPT ![key] = d[key] \ {value}]
    ELSE d

\* ----------------------------------------------------------------- methods
has_cache(self, request, input_id) ==
  Request[request].mm_hash[input_id] \in Keys(self.cache)

\* can_allocate as the per-request manager has it: free space only
can_allocate_NoReclaim(self, request, input_id) ==
  LET mm_hash == Request[request].mm_hash[input_id]
      num_tokens == get_num_encoder_tokens(request, input_id)
  IN IF mm_hash \in Keys(self.cache)
       THEN TRUE
       ELSE num_tokens <= CacheSize - self.num_used_tokens

\* can_allocate comparing the cost with the whole capacity
can_allocate_Capacity(self, request, input_id) ==
  LET mm_hash == Request[request].mm_hash[input_id]
      num_tokens == get_num_encoder_tokens(request, input_id)
  IN IF mm_hash \in Keys(self.cache)
       THEN TRUE
       ELSE num_tokens <= CacheSize

\* can_allocate counting every entry as reclaimable, in use or not
can_allocate_AllEntries(self, request, input_id) ==
  LET mm_hash == Request[request].mm_hash[input_id]
      num_tokens == get_num_encoder_tokens(request, input_id)
  IN IF mm_hash \in Keys(self.cache)
       THEN TRUE
       ELSE num_tokens <=
              (CacheSize - self.num_used_tokens) + SumTokens(self.cache)

can_allocate(self, request, input_id) ==
  LET mm_hash == Request[request].mm_hash[input_id]
      num_tokens == get_num_encoder_tokens(request, input_id)
  IN IF mm_hash \in Keys(self.cache)
       THEN TRUE
       ELSE LET available_tokens == CacheSize - self.num_used_tokens
                reclaimable_tokens ==
                  SumTokens(SelectSeq(self.cache, LAMBDA e : e.in_use = 0))
                total_available == available_tokens + reclaimable_tokens
            IN num_tokens <= total_available

\* the eviction loop without its `if entry.in_use == 0` test
RECURSIVE EvictLoop_Any(_, _, _, _)
EvictLoop_Any(items, required_tokens, tokens_reclaimed, evicted_mm_hashes) ==
  IF items = <<>>
    THEN [tokens_reclaimed |-> tokens_reclaimed,
          evicted_mm_hashes |-> evicted_mm_hashes]
    ELSE LET entry == Head(items)
             reclaimed == tokens_reclaimed + entry.num_tokens
             evicted == Append(evicted_mm_hashes, entry.mm_hash)
         IN IF reclaimed >= required_tokens
              THEN [tokens_reclaimed |-> reclaimed,
                    evicted_mm_hashes |-> evicted]
              ELSE EvictLoop_Any(Tail(items), required_tokens,
                                 reclaimed, evicted)

\* the eviction loop of allocate: walks the items in dictionary order and
\* pops the entries not in use until enough tokens are reclaimed
RECURSIVE EvictLoop(_, _, _, _)
EvictLoop(items, required_tokens, tokens_reclaimed, evicted_mm_hashes) ==
  IF items = <<>>
    THEN [tokens_reclaimed |-> tokens_reclaimed,
          evicted_mm_hashes |-> evicted_mm_hashes]
    ELSE LET entry == Head(items)
         IN IF entry.in_use = 0
              THEN LET reclaimed == tokens_reclaimed + entry.num_tokens
                       evicted == Append(evicted_mm_hashes, entry.mm_hash)
                   IN IF reclaimed >= required_tokens
                        THEN [tokens_reclaimed |-> reclaimed,
                              evicted_mm_hashes |-> evicted]
                        ELSE EvictLoop(Tail(items), required_tokens,
                                       reclaimed, evicted)
              ELSE EvictLoop(Tail(items), required_tokens,
                             tokens_reclaimed, evicted_mm_hashes)

Range(s) == {s[n] : n \in 1..Len(s)}

\* allocate on a cached key that adds 1 to the in_use of every entry
allocate_hit_BumpAll(c, mm_hash) ==
  LET n == CHOOSE n \in 1..Len(c) : c[n].mm_hash = mm_hash
      bumped == [m \in 1..Len(c) |-> [c[m] EXCEPT !.in_use = @ + 1]]
  IN IF bumped[n].in_use = 1
       THEN move_to_end(bumped, mm_hash, TRUE)
       ELSE bumped

\* allocate on a cached key that sets in_use = 1 instead of adding 1
allocate_hit_SetOne(c, mm_hash) ==
  LET n == CHOOSE n \in 1..Len(c) : c[n].mm_hash = mm_hash
      bumped == [c EXCEPT ![n].in_use = 1]
  IN IF c[n].in_use # 1 THEN move_to_end(bumped, mm_hash, TRUE) ELSE bumped

\* allocate, key already cached: in_use += 1 and, when that makes it 1,
\* move_to_end(mm_hash)
allocate_hit(c, mm_hash) ==
  LET n == CHOOSE n \in 1..Len(c) : c[n].mm_hash = mm_hash
      bumped == [c EXCEPT ![n].in_use = @ + 1]
  IN IF bumped[n].in_use = 1
       THEN move_to_end(bumped, mm_hash, TRUE)
       ELSE bumped

\* allocate on a miss that adds the new entry without `num_used_tokens +=`
allocate_miss_NoCharge(self, mm_hash, num_tokens) ==
  LET required_tokens == num_tokens - (CacheSize - self.num_used_tokens)
      loop == IF required_tokens > 0
                THEN EvictLoop(self.cache, required_tokens, 0, <<>>)
                ELSE [tokens_reclaimed |-> 0, evicted_mm_hashes |-> <<>>]
      gone == Range(loop.evicted_mm_hashes)
      popped == SelectSeq(self.cache, LAMBDA e : e.mm_hash \notin gone)
      ids == [k \in DOMAIN self.mm_hash_to_input_ids \ gone |->
                self.mm_hash_to_input_ids[k]]
  IN IF required_tokens > 0 /\ loop.tokens_reclaimed < required_tokens
       THEN [self |-> [self EXCEPT !.cache = popped,
                                   !.mm_hash_to_input_ids = ids],
             raised |-> TRUE,
             evicted |-> loop.evicted_mm_hashes]
       ELSE LET entry == [CacheEntry(num_tokens) EXCEPT !.in_use = 1]
            IN [self |-> [self EXCEPT
                  !.cache = Append(popped, Item(mm_hash, entry)),
                  !.num_used_tokens = @ - loop.tokens_reclaimed,
                  !.mm_hash_to_input_ids = ids],
                raised |-> FALSE,
                evicted |-> loop.evicted_mm_hashes]

\* allocate on a miss that runs the eviction loop without `if required_tokens > 0`
allocate_miss_AlwaysEvict(self, mm_hash, num_tokens) ==
  LET required_tokens == num_tokens - (CacheSize - self.num_used_tokens)
      loop == EvictLoop(self.cache, required_tokens, 0, <<>>)
      gone == Range(loop.evicted_mm_hashes)
      popped == SelectSeq(self.cache, LAMBDA e : e.mm_hash \notin gone)
      ids == [k \in DOMAIN self.mm_hash_to_input_ids \ gone |->
                self.mm_hash_to_input_ids[k]]
  IN IF required_tokens > 0 /\ loop.tokens_reclaimed < required_tokens
       THEN [self |-> [self EXCEPT !.cache = popped,
                                   !.mm_hash_to_input_ids = ids],
             raised |-> TRUE,
             evicted |-> loop.evicted_mm_hashes]
       ELSE LET entry == [CacheEntry(num_tokens) EXCEPT !.in_use = 1]
            IN [self |-> [self EXCEPT
                  !.cache = Append(popped, Item(mm_hash, entry)),
                  !.num_used_tokens =
                     (@ - loop.tokens_reclaimed) + num_tokens,
                  !.mm_hash_to_input_ids = ids],
                raised |-> FALSE,
                evicted |-> loop.evicted_mm_hashes]

\* allocate, key not cached: make space, then add the new entry.  Gives the
\* object after the branch, whether MemoryError was raised, and the keys
\* the eviction loop popped
allocate_miss(self, mm_hash, num_tokens) ==
  LET required_tokens == num_tokens - (CacheSize - self.num_used_tokens)
      loop == IF required_tokens > 0
                THEN EvictLoop(self.cache, required_tokens, 0, <<>>)
                ELSE [tokens_reclaimed |-> 0, evicted_mm_hashes |-> <<>>]
      gone == Range(loop.evicted_mm_hashes)
      popped == SelectSeq(self.cache, LAMBDA e : e.mm_hash \notin gone)
      ids == [k \in DOMAIN self.mm_hash_to_input_ids \ gone |->
                self.mm_hash_to_input_ids[k]]
  IN IF required_tokens > 0 /\ loop.tokens_reclaimed < required_tokens
       THEN \* raise MemoryError: the pops are done, nothing else is
            [self |-> [self EXCEPT !.cache = popped,
                                   !.mm_hash_to_input_ids = ids],
             raised |-> TRUE,
             evicted |-> loop.evicted_mm_hashes]
       ELSE LET entry == [CacheEntry(num_tokens) EXCEPT !.in_use = 1]
            IN [self |-> [self EXCEPT
                  !.cache = Append(popped, Item(mm_hash, entry)),
                  !.num_used_tokens =
                     (@ - loop.tokens_reclaimed) + num_tokens,
                  !.mm_hash_to_input_ids = ids],
                raised |-> FALSE,
                evicted |-> loop.evicted_mm_hashes]

allocate(self, request, input_id) ==
  LET request_id == request
      mm_hash == Request[request].mm_hash[input_id]
      num_tokens == get_num_encoder_tokens(request, input_id)
      branch == IF mm_hash \in Keys(self.cache)
                  THEN [self |-> [self EXCEPT
                                    !.cache = allocate_hit(@, mm_hash)],
                        raised |-> FALSE,
                        evicted |-> <<>>]
                  ELSE allocate_miss(self, mm_hash, num_tokens)
  IN IF branch.raised
       THEN branch
       ELSE [branch EXCEPT
               !.self.request_mm_hashes =
                  setdefault_add(@, request_id, mm_hash),
               !.self.mm_hash_to_input_ids =
                  setdefault_add(@, mm_hash, input_id)]

\* get_cached_input_ids answering from the request's own set of keys
get_cached_input_ids_Own(self, request) ==
  {input_id \in InputIds(request) :
     /\ request \in DOMAIN self.request_mm_hashes
     /\ Request[request].mm_hash[input_id] \in self.request_mm_hashes[request]}

get_cached_input_ids(self, request) ==
  {input_id \in InputIds(request) :
     Request[request].mm_hash[input_id] \in Keys(self.cache)}

\* free on a cached key that drops the entry when in_use reaches 0
release_Pop(c, mm_hash) ==
  LET n == CHOOSE n \in 1..Len(c) : c[n].mm_hash = mm_hash
      dropped == [c EXCEPT ![n].in_use = @ - 1]
  IN IF dropped[n].in_use = 0
       THEN SelectSeq(dropped, LAMBDA x : x.mm_hash # mm_hash)
       ELSE dropped

\* free, key cached: in_use -= 1 and, when that makes it 0,
\* move_to_end(mm_hash, last=False)
release(c, mm_hash) ==
  LET n == CHOOSE n \in 1..Len(c) : c[n].mm_hash = mm_hash
      dropped == [c EXCEPT ![n].in_use = @ - 1]
  IN IF dropped[n].in_use = 0
       THEN move_to_end(dropped, mm_hash, FALSE)
       ELSE dropped

free(self, request, input_id) ==
  LET request_id == request
      mm_hash == Request[request].mm_hash[input_id]
  IN IF mm_hash \notin Keys(self.cache)
       THEN self
       ELSE [self EXCEPT
               !.cache = release(@, mm_hash),
               !.mm_hash_to_input_ids = discard_del(@, mm_hash, input_id),
               !.request_mm_hashes = discard_del(@, request_id, mm_hash)]

get_freed_ids(self) ==
  LET idle == SelectSeq(self.cache, LAMBDA e : e.in_use = 0)
  IN [n \in 1..Len(idle) |-> idle[n].mm_hash]

\* ------------------------------------------------------------------ actions
\* what the last call was: its method, the content key it was about, what it
\* returned or raised, and the keys its eviction loop popped
NoCall ==
  [op |-> "init", mm_hash |-> "", ret |-> FALSE, raised |-> FALSE,
   evicted |-> <<>>]

Call(op, mm_hash) == [NoCall EXCEPT !.op = op, !.mm_hash = mm_hash]

Store(self) ==
  /\ cache' = self.cache
  /\ num_used_tokens' = self.num_used_tokens
  /\ request_mm_hashes' = self.request_mm_hashes
  /\ mm_hash_to_input_ids' = self.mm_hash_to_input_ids

Init ==
  /\ cache = <<>>
  /\ num_used_tokens = 0
  /\ request_mm_hashes = <<>>
  /\ mm_hash_to_input_ids = <<>>
  /\ usage = {}
  /\ idled = <<>>
  /\ last = NoCall

HasCache(request, input_id) ==
  /\ last' = [Call("has_cache", Request[request].mm_hash[input_id])
                EXCEPT !.ret = has_cache(Self, request, input_id)]
  /\ UNCHANGED <<cache, num_used_tokens, request_mm_hashes,
                 mm_hash_to_input_ids, usage, idled>>

CanAllocate(request, input_id) ==
  /\ last' = [Call("can_allocate", Request[request].mm_hash[input_id])
                EXCEPT !.ret = can_allocate(Self, request, input_id)]
  /\ UNCHANGED <<cache, num_used_tokens, request_mm_hashes,
                 mm_hash_to_input_ids, usage, idled>>

Allocate(request, input_id) ==
  LET mm_hash == Request[request].mm_hash[input_id]
      r == allocate(Self, request, input_id)
      gone == Range(r.evicted)
      kept == {p \in usage : Request[p[1]].mm_hash[p[2]] \notin gone}
  IN /\ mm_hash \in Keys(cache) => Entry(cache, mm_hash).in_use < MaxInUse
     /\ Store(r.self)
     /\ usage' = IF r.raised THEN kept ELSE kept \cup {<<request, input_id>>}
     /\ idled' = SelectSeq(idled, LAMBDA k : k \notin gone \cup {mm_hash})
     /\ last' = [Call("allocate", mm_hash)
                   EXCEPT !.raised = r.raised, !.evicted = r.evicted,
                          !.ret = has_cache(Self, request, input_id)]

GetCachedInputIds(request) ==
  /\ last' = [Call("get_cached_input_ids", "")
                EXCEPT !.ret = get_cached_input_ids(Self, request) # {}]
  /\ UNCHANGED <<cache, num_used_tokens, request_mm_hashes,
                 mm_hash_to_input_ids, usage, idled>>

Free(request, input_id) ==
  LET mm_hash == Request[request].mm_hash[input_id]
  IN /\ mm_hash \in Keys(cache) =>
          Entry(cache, mm_hash).in_use > -MaxDeficit
     /\ Store(free(Self, request, input_id))
     /\ usage' = IF mm_hash \in Keys(cache)
                   THEN usage \ {<<request, input_id>>}
                   ELSE usage
     /\ idled' = IF mm_hash \notin Keys(cache) THEN idled
                 ELSE LET rest == SelectSeq(idled, LAMBDA k : k # mm_hash)
                      IN IF Entry(cache, mm_hash).in_use = 1
                           THEN Append(rest, mm_hash)
                           ELSE rest
     /\ last' = [Call("free", mm_hash)
                   EXCEPT !.ret = has_cache(Self, request, input_id)]

GetFreedIds ==
  /\ last' = [Call("get_freed_ids", "")
                EXCEPT !.ret = get_freed_ids(Self) # <<>>]
  /\ UNCHANGED <<cache, num_used_tokens, request_mm_hashes,
                 mm_hash_to_input_ids, usage, idled>>

Next ==
  \/ \E p \in Pairs : HasCache(p[1], p[2])
  \/ \E p \in Pairs : CanAllocate(p[1], p[2])
  \/ \E p \in Pairs : Allocate(p[1], p[2])
  \/ \E request \in RequestIds : GetCachedInputIds(request)
  \/ \E p \in Pairs : Free(p[1], p[2])
  \/ GetFreedIds

Spec == Init /\ [][Next]_vars

\* ================================================================== claims
\* sum of the entries' num_tokens over a set of positions of the cache
RECURSIVE SumCost(_, _)
SumCost(c, S) ==
  IF S = {} THEN 0
  ELSE LET n == CHOOSE n \in S : TRUE
       IN c[n].num_tokens + SumCost(c, S \ {n})

Idle(c) == {n \in 1..Len(c) : c[n].in_use = 0}

KeyOf(p) == Request[p[1]].mm_hash[p[2]]

PairUniverse == RequestIds \X {0, 1, 2}

\* C1: used equals the sum of cost over all entries present, and
\* 0 <= used <= capacity, in every reachable state (failed allocate calls
\* included).
C1_Conservation ==
  /\ num_used_tokens = SumCost(cache, 1..Len(cache))
  /\ 0 <= num_used_tokens
  /\ num_used_tokens <= CacheSize

\* C2: no call removes an entry whose refcount is > 0; an entry leaves the
\* cache only in an allocate call and only with refcount == 0.
C2_NoEvictionWhileActive ==
  [][\A n \in 1..Len(cache) :
       cache[n].mm_hash \notin Keys(cache')
         => cache[n].in_use = 0 /\ last'.op = "allocate"]_vars

\* an allocate evicted an idle entry and an entry in use stayed
C2_Witness ==
  /\ last.op = "allocate"
  /\ ~last.raised
  /\ last.evicted # <<>>
  /\ \E n \in 1..Len(cache) :
       cache[n].in_use > 0 /\ cache[n].mm_hash # last.mm_hash

\* C3: every entry present has refcount >= 0, whatever sequence of allocate
\* and free calls (repeated free calls included) led here.
C3_RefcountNonNegative ==
  \A n \in 1..Len(cache) : cache[n].in_use >= 0

\* C4: eviction is least-recently-idled-first: an idle entry B is never
\* evicted while an entry A that became idle earlier than B stays cached.
C4_LruOrder ==
  [][\A i \in 1..Len(idled) : \A j \in 1..Len(idled) :
       (i < j /\ idled[j] \notin Keys(cache'))
         => idled[i] \notin Keys(cache')]_vars

\* C5: allocate on a key with no entry raises the capacity-violation error
\* exactly when can_allocate in the same state is false, i.e. exactly when
\* needed exceeds the free space plus the cost of all idle entries.
C5_AdmissionAgreement ==
  \A p \in Pairs :
    KeyOf(p) \notin Keys(cache) =>
      /\ allocate(Self, p[1], p[2]).raised
           <=> ~can_allocate(Self, p[1], p[2])
      /\ allocate(Self, p[1], p[2]).raised
           <=> NumEncoderTokens[KeyOf(p)] >
                 (CacheSize - num_used_tokens) + SumCost(cache, Idle(cache))

\* an allocate on an absent key failed after the loop had popped entries
C5_Witness ==
  /\ last.op = "allocate"
  /\ ~last.ret
  /\ last.raised
  /\ last.evicted # <<>>

\* C6: can_allocate returns true when the key has an entry, and otherwise
\* true iff cost <= (capacity - used) + sum of cost of the entries with
\* refcount 0; the call changes nothing of the cache state.
C6_CanAllocate ==
  [][last'.op = "can_allocate" =>
       /\ last'.ret =
            (\/ last'.mm_hash \in Keys(cache)
             \/ NumEncoderTokens[last'.mm_hash] <=
                  (CacheSize - num_used_tokens) + SumCost(cache, Idle(cache)))
       /\ UNCHANGED <<cache, num_used_tokens, request_mm_hashes,
                      mm_hash_to_input_ids>>]_vars

\* can_allocate refused an absent key although an idle entry could go
C6_Witness ==
  /\ last.op = "can_allocate"
  /\ ~last.ret
  /\ last.mm_hash \notin Keys(cache)
  /\ Idle(cache) # {}

\* C7: from any state where a key has no entry, allocating two different
\* pairs with that key gives one entry with refcount 2 and used raised by
\* the cost once; freeing either pair leaves refcount 1 and has_cache true
\* for both pairs.
C7_Sharing ==
  \A p1 \in Pairs : \A p2 \in Pairs :
    (p1 # p2 /\ KeyOf(p1) = KeyOf(p2) /\ KeyOf(p1) \notin Keys(cache)
       /\ ~allocate(Self, p1[1], p1[2]).raised) =>
      LET k == KeyOf(p1)
          a1 == allocate(Self, p1[1], p1[2])
          a2 == allocate(a1.self, p2[1], p2[2])
          reclaimed == SumCost(cache, {n \in 1..Len(cache) :
                                         cache[n].mm_hash \in Range(a1.evicted)})
      IN /\ ~a2.raised
         /\ Cardinality({n \in 1..Len(a2.self.cache) :
                           a2.self.cache[n].mm_hash = k}) = 1
         /\ Entry(a2.self.cache, k).in_use = 2
         /\ a2.self.num_used_tokens =
              (num_used_tokens - reclaimed) + NumEncoderTokens[k]
         /\ \A q \in {p1, p2} :
              LET f == free(a2.self, q[1], q[2])
              IN /\ Entry(f.cache, k).in_use = 1
                 /\ has_cache(f, p1[1], p1[2])
                 /\ has_cache(f, p2[1], p2[2])

\* two pairs share an entry, one of them has just been freed
C7_Witness ==
  /\ last.op = "free"
  /\ last.mm_hash \in Keys(cache)
  /\ Entry(cache, last.mm_hash).in_use = 1
  /\ Cardinality({p \in usage : KeyOf(p) = last.mm_hash}) = 1
  /\ \A p \in Pairs : KeyOf(p) = last.mm_hash => has_cache(Self, p[1], p[2])

\* a returned list is the given list of (request_id, input_id) pairs
IsPairs(returned, pairs) ==
  /\ Len(returned) = Len(pairs)
  /\ \A n \in 1..Len(returned) :
       returned[n] \in PairUniverse /\ returned[n] = pairs[n]

\* C8: get_freed_ids returns the pairs released by free since the previous
\* get_freed_ids call, in the order of the free calls, and clears the queue:
\* right after a get_freed_ids call a second call returns the empty
\* sequence, and after free calls for the held pairs P1 and P2 it returns
\* <<P1, P2>>.
C8_FreedQueueDrains ==
  last.op = "get_freed_ids" =>
    /\ get_freed_ids(Self) = <<>>
    /\ \A p1 \in usage : \A p2 \in usage \ {p1} :
         IsPairs(get_freed_ids(free(free(Self, p1[1], p1[2]), p2[1], p2[2])),
                 <<p1, p2>>)

\* C9: a free call for a held pair whose key has an entry appends exactly
\* one pair, (request_id, input_id), to what get_freed_ids returns, whether
\* or not the entry's refcount reaches 0.
C9_FreeAppendsPair ==
  [][\A p \in usage :
       (has_cache(Self, p[1], p[2]) /\ Free(p[1], p[2])) =>
         LET before == get_freed_ids(Self)
             after == get_freed_ids(Self)'
         IN /\ Len(after) = Len(before) + 1
            /\ SubSeq(after, 1, Len(before)) = before
            /\ after[Len(after)] \in PairUniverse
            /\ after[Len(after)] = p]_vars

\* C10: free for a pair that was never allocated, or whose usage was already
\* released, leaves the cache state unchanged and reports nothing freed.
C10_IdempotentFree ==
  [][\A p \in Pairs \ usage :
       Free(p[1], p[2]) =>
         /\ UNCHANGED <<cache, num_used_tokens, request_mm_hashes,
                        mm_hash_to_input_ids>>
         /\ get_freed_ids(Self)' = get_freed_ids(Self)]_vars

\* the object as __init__ leaves it: nothing cached, nothing used, both
\* mappings empty
Fresh ==
  /\ cache = <<>>
  /\ num_used_tokens = 0
  /\ request_mm_hashes = <<>>
  /\ mm_hash_to_input_ids = <<>>

\* C11: on a newly constructed manager, for any input of cost n <= capacity,
\* can_allocate returns true and allocate completes without raising, after
\* which has_cache is true for that input and used == n
C11_FirstAllocate ==
  Fresh =>
    \A p \in Pairs :
      LET n == get_num_encoder_tokens(p[1], p[2])
          r == allocate(Self, p[1], p[2])
      IN n <= CacheSize =>
           /\ can_allocate(Self, p[1], p[2])
           /\ ~r.raised
           /\ has_cache(r.self, p[1], p[2])
           /\ r.self.num_used_tokens = n

\* the first allocate has been done on the new manager: one entry, the
\* requested one, nothing evicted, and used is its cost
C11_Witness ==
  /\ last.op = "allocate" /\ ~last.ret /\ ~last.raised
  /\ last.evicted = <<>>
  /\ Keys(cache) = {last.mm_hash}
  /\ num_used_tokens = NumEncoderTokens[last.mm_hash]
  /\ usage # {}

\* the allocate calls of a sequence of pairs, one after the other, up to
\* the first that raises
RECURSIVE AllocateAll(_, _)
AllocateAll(self, ps) ==
  IF ps = <<>> THEN [self |-> self, raised |-> FALSE]
  ELSE LET r == allocate(self, Head(ps)[1], Head(ps)[2])
       IN IF r.raised THEN [self |-> r.self, raised |-> TRUE]
          ELSE AllocateAll(r.self, Tail(ps))

\* the free calls of a sequence of pairs, one after the other
RECURSIVE FreeAll(_, _)
FreeAll(self, ps) ==
  IF ps = <<>> THEN self
  ELSE FreeAll(free(self, Head(ps)[1], Head(ps)[2]), Tail(ps))

Reverse(s) == [n \in 1..Len(s) |-> s[Len(s) + 1 - n]]

ContentKeys == DOMAIN NumEncoderTokens

\* the sequences of 1..MaxInUse usages of one content key
Runs(k) ==
  UNION {[1..n -> {p \in Pairs : KeyOf(p) = k}] : n \in 1..MaxInUse}

\* C12: n allocate calls for a key that nobody uses, followed by n free
\* calls for the same usages (in the same or the opposite order), leave the
\* entry in the cache with refcount 0: idle, has_cache true, used as the
\* allocate calls left it; and free never removes an entry
C12_BalancedUse ==
  /\ \A p \in Pairs : Keys(free(Self, p[1], p[2]).cache) = Keys(cache)
  /\ \A k \in ContentKeys :
       (k \in Keys(cache) => Entry(cache, k).in_use = 0) =>
         \A ps \in Runs(k) :
           LET a == AllocateAll(Self, ps)
           IN ~a.raised =>
                \A fs \in {ps, Reverse(ps)} :
                  LET f == FreeAll(a.self, fs)
                  IN /\ k \in Keys(f.cache)
                     /\ Entry(f.cache, k).in_use = 0
                     /\ k \in Range(get_freed_ids(f))
                     /\ \A n \in 1..Len(ps) : has_cache(f, ps[n][1], ps[n][2])
                     /\ f.num_used_tokens = a.self.num_used_tokens

\* a free has just brought an entry back to in_use 0: as many free calls as
\* allocate calls since the entry was made, and the entry is still there
C12_Witness ==
  /\ last.op = "free" /\ last.ret
  /\ last.mm_hash \in Keys(cache)
  /\ Entry(cache, last.mm_hash).in_use = 0
  /\ idled # <<>> /\ idled[Len(idled)] = last.mm_hash
  /\ \A p \in usage : KeyOf(p) # last.mm_hash

\* C13: in every reachable state and for every input of every request,
\* has_cache is true iff the input's content key has an entry (in use or
\* not, whoever allocated it), input_id is in get_cached_input_ids(request)
\* iff has_cache(request, input_id), and neither query changes the state
C13_Queries ==
  [][/\ last'.op = "has_cache" =>
          /\ last'.ret =
               \E n \in 1..Len(cache) : cache[n].mm_hash = last'.mm_hash
          /\ \A p \in Pairs :
               KeyOf(p) = last'.mm_hash =>
                 /\ has_cache(Self, p[1], p[2]) = last'.ret
                 /\ p[2] \in get_cached_input_ids(Self, p[1]) <=> last'.ret
     /\ last'.op \in {"has_cache", "get_cached_input_ids"} =>
          UNCHANGED <<cache, num_used_tokens, request_mm_hashes,
                      mm_hash_to_input_ids, usage, idled>>]_vars

\* has_cache has answered true for an input nobody uses any more
C13_Witness ==
  /\ last.op = "has_cache" /\ last.ret
  /\ Entry(cache, last.mm_hash).in_use = 0
  /\ usage = {}

\* the keys request_mm_hashes holds for a request (none when it has no item)
Held(d, request_id) == IF request_id \in DOMAIN d THEN d[request_id] ELSE {}

\* C14: when a request uses a content key through several of its inputs,
\* freeing one of them leaves the key in the request's set of
\* request_mm_hashes; the key leaves the set only with the free of the last
\* input of that request that uses it, and the request leaves the mapping
\* exactly when its set becomes empty
C14_ReverseIndexRelease ==
  [][\A p \in usage :
       (/\ has_cache(Self, p[1], p[2])
        /\ KeyOf(p) \in Held(request_mm_hashes, p[1])
        /\ Free(p[1], p[2])) =>
         LET others == {q \in usage \ {p} :
                          q[1] = p[1] /\ KeyOf(q) = KeyOf(p)}
             after == Held(request_mm_hashes', p[1])
         IN /\ KeyOf(p) \in after <=> others # {}
            /\ after = IF others # {}
                         THEN Held(request_mm_hashes, p[1])
                         ELSE Held(request_mm_hashes, p[1]) \ {KeyOf(p)}
            /\ p[1] \in DOMAIN request_mm_hashes' <=> after # {}]_vars

\* C15: an entry leaves the cache only by being evicted, while idle, during
\* an allocate call for a different key that has no entry and whose cost
\* exceeds capacity - used; no other call (free, the queries, allocate on a
\* cached key) removes an entry, and the cost of an entry that stays never
\* changes
C15_EntryLifecycle ==
  [][\A n \in 1..Len(cache) :
       LET k == cache[n].mm_hash
       IN /\ k \notin Keys(cache') =>
               /\ cache[n].in_use = 0
               /\ last'.op = "allocate"
               /\ k \in Range(last'.evicted)
               /\ last'.mm_hash # k
               /\ last'.mm_hash \notin Keys(cache)
               /\ NumEncoderTokens[last'.mm_hash] > CacheSize - num_used_tokens
          /\ k \in Keys(cache') =>
               Entry(cache', k).num_tokens = cache[n].num_tokens]_vars

\* an allocate has evicted one idle entry and another idle entry stayed
C15_Witness ==
  /\ last.op = "allocate" /\ ~last.raised
  /\ Len(last.evicted) = 1
  /\ \E n \in 1..Len(cache) :
       cache[n].in_use = 0 /\ cache[n].mm_hash \in Range(idled)

\* the cost of the first n keys of a sequence of keys
RECURSIVE Reclaimed(_, _)
Reclaimed(ks, n) ==
  IF n = 0 THEN 0 ELSE NumEncoderTokens[ks[n]] + Reclaimed(ks, n - 1)

\* C16: an allocate on a key with no entry that completes evicts nothing
\* when needed <= capacity - used; otherwise it evicts idle entries one at a
\* time in idle order (least recently idled first) and stops at the first
\* point where the reclaimed cost is >= needed - (capacity - used), so the
\* reclaimed cost without the last evicted entry is below that shortfall;
\* afterwards used == old used - reclaimed + needed
C16_MinimalEviction ==
  [][(last'.op = "allocate" /\ ~last'.ret /\ ~last'.raised) =>
       LET needed == NumEncoderTokens[last'.mm_hash]
           shortfall == needed - (CacheSize - num_used_tokens)
           evicted == last'.evicted
       IN /\ shortfall <= 0 => evicted = <<>>
          /\ shortfall > 0 =>
               /\ evicted # <<>>
               /\ Len(evicted) <= Len(idled)
               /\ evicted = SubSeq(idled, 1, Len(evicted))
               /\ Reclaimed(evicted, Len(evicted)) >= shortfall
               /\ Reclaimed(evicted, Len(evicted) - 1) < shortfall
          /\ Keys(cache') = (Keys(cache) \ Range(evicted)) \cup {last'.mm_hash}
          /\ num_used_tokens' =
               (num_used_tokens - Reclaimed(evicted, Len(evicted))) + needed]_vars

\* C17: allocate for a key that has an entry adds exactly 1 to that entry's
\* refcount, never raises, evicts nothing and leaves used, the set of
\* entries and every other entry unchanged; an entry taken from 0 to 1 is
\* no eviction candidate of a following allocate on an absent key
C17_AllocateHit ==
  \A p \in Pairs :
    KeyOf(p) \in Keys(cache) =>
      LET k == KeyOf(p)
          r == allocate(Self, p[1], p[2])
      IN /\ ~r.raised
         /\ r.evicted = <<>>
         /\ r.self.num_used_tokens = num_used_tokens
         /\ Keys(r.self.cache) = Keys(cache)
         /\ Len(r.self.cache) = Len(cache)
         /\ Entry(r.self.cache, k).in_use = Entry(cache, k).in_use + 1
         /\ \A n \in 1..Len(cache) :
              /\ Entry(r.self.cache, cache[n].mm_hash).num_tokens =
                   cache[n].num_tokens
              /\ cache[n].mm_hash # k =>
                   Entry(r.self.cache, cache[n].mm_hash).in_use = cache[n].in_use
         /\ Entry(cache, k).in_use = 0 =>
              /\ k \notin Range(get_freed_ids(r.self))
              /\ \A q \in Pairs :
                   KeyOf(q) \notin Keys(cache) =>
                     LET a == allocate(r.self, q[1], q[2])
                     IN k \notin Range(a.evicted) /\ k \in Keys(a.self.cache)

\* an allocate has taken an idle entry back into use while another idle
\* entry is there to be evicted
C17_Witness ==
  /\ last.op = "allocate" /\ last.ret /\ ~last.raised
  /\ Entry(cache, last.mm_hash).in_use = 1
  /\ \E n \in 1..Len(cache) :
       cache[n].mm_hash # last.mm_hash /\ cache[n].in_use = 0

\* C18: an allocate that directly follows a can_allocate of the same key
\* that returned true, with no call in between, never raises.  (That
\* allocate(X) can raise when can_allocate(Y) and allocate(Y) for another
\* absent key come between can_allocate(X) = true and allocate(X) is the
\* state C18_Witness reaches.)
C18_AdmissionUnit ==
  [][(/\ last.op = "can_allocate" /\ last.ret
      /\ last'.op = "allocate" /\ last'.mm_hash = last.mm_hash) =>
       ~last'.raised]_vars

\* can_allocate(X) has just returned true for an absent key X, and from
\* here can_allocate(Y) is true for another absent key Y, allocate(Y)
\* completes and the allocate(X) after it raises
C18_Witness ==
  /\ last.op = "can_allocate" /\ last.ret
  /\ last.mm_hash \notin Keys(cache)
  /\ \E x \in Pairs : \E y \in Pairs :
       /\ KeyOf(x) = last.mm_hash
       /\ KeyOf(y) \notin Keys(cache) \cup {KeyOf(x)}
       /\ can_allocate(Self, y[1], y[2])
       /\ ~allocate(Self, y[1], y[2]).raised
       /\ ~can_allocate(allocate(Self, y[1], y[2]).self, x[1], x[2])
       /\ allocate(allocate(Self, y[1], y[2]).self, x[1], x[2]).raised

\* C19: an allocate call that raises the capacity-violation error leaves
\* the state exactly as it was before the call: no idle entry removed, used
\* unchanged, no entry for the requested key, request_mm_hashes and
\* mm_hash_to_input_ids unchanged
C19_FailedAllocateChangesNothing ==
  [][(last'.op = "allocate" /\ last'.raised) =>
       /\ Keys(cache) \subseteq Keys(cache')
       /\ cache' = cache
       /\ num_used_tokens' = num_used_tokens
       /\ last'.mm_hash \notin Keys(cache')
       /\ request_mm_hashes' = request_mm_hashes
       /\ mm_hash_to_input_ids' = mm_hash_to_input_ids]_vars

\* C20: in every reachable state every key in a request's set of
\* request_mm_hashes has an entry with refcount > 0 (so an evicted key is in
\* no request's set), every entry with refcount > 0 is in the set of at
\* least one request, and no request is mapped to an empty set
C20_ReverseIndexConsistent ==
  /\ \A r \in DOMAIN request_mm_hashes :
       /\ request_mm_hashes[r] # {}
       /\ \A k \in request_mm_hashes[r] :
            k \in Keys(cache) /\ Entry(cache, k).in_use > 0
  /\ \A n \in 1..Len(cache) :
       cache[n].in_use > 0 =>
         \E r \in DOMAIN request_mm_hashes :
           cache[n].mm_hash \in request_mm_hashes[r]

====
